---- MODULE Spec2Model ----
(***************************************************************************)
(* mhask: a minimal HTTP request-dispatch engine (src/mhask/__init__.py).  *)
(*                                                                         *)
(* Text is modelled character by character: a Python str (and the ASCII    *)
(* bytes it is decoded from) is a sequence of one-character strings, so    *)
(* that splitting, joining, measuring and matching are computed the way    *)
(* the code computes them.                                                 *)
(***************************************************************************)
EXTENDS Integers, Sequences, FiniteSets, TLC

VARIABLES
    endpoints,  \* App.endpoints: the items of the dict, in iteration order
    debug,      \* App.debug
    request,    \* App.request, the current-request slot (NoRequest: None)
    last,       \* the record of the latest direct call of App.handle
    conns,      \* the connections the transport drivers accepted, in order
    timer,      \* the listening socket of Timer.run and its latest callback
    held,       \* a Response an application holds, and its latest renders
    answer,     \* the latest call of getstatus or Request.json
    apps        \* the App instances of a process with several of them

vars == <<endpoints, debug, request, last, conns, timer, held, answer, apps>>

CR == "\r"
LF == "\n"
SP == " "
SLASH == "/"
COLON == ":"

\* The characters str.split() and str.strip() treat as whitespace.
Whitespace == {SP, "\t", CR, LF}

\* A TLA+ string as the sequence of its characters.
Chars(str) == [i \in 1..Len(str) |-> SubSeq(str, i, i)]

(***************************************************************************)
(* String helpers                                                          *)
(***************************************************************************)

\* The least element of a non-empty set of integers.
Least(S) == CHOOSE i \in S : \A j \in S : i <= j

\* The first index from i on at which s holds one of chars; 0 without one.
RECURSIVE Find(_, _, _)
Find(s, chars, i) ==
    IF i > Len(s) THEN 0
    ELSE IF s[i] \in chars THEN i
    ELSE Find(s, chars, i + 1)

\* str.split(sep) for a one-character separator: always at least one piece.
RECURSIVE SplitFrom(_, _, _)
SplitFrom(s, sep, at) ==
    IF at = 0 THEN <<s>>
    ELSE <<SubSeq(s, 1, at - 1)>>
             \o SplitFrom(SubSeq(s, at + 1, Len(s)), sep,
                          Find(SubSeq(s, at + 1, Len(s)), {sep}, 1))

SplitOn(s, sep) == SplitFrom(s, sep, Find(s, {sep}, 1))

\* str.split(sep, 1): at most one split, at the first separator.
SplitOnceAt(s, at) ==
    IF at = 0 THEN <<s>>
    ELSE <<SubSeq(s, 1, at - 1), SubSeq(s, at + 1, Len(s))>>

SplitOnce(s, sep) == SplitOnceAt(s, Find(s, {sep}, 1))

\* str.lstrip(chars), str.rstrip(chars), str.strip().
RECURSIVE LStrip(_, _)
LStrip(s, chars) ==
    IF s # <<>> /\ Head(s) \in chars THEN LStrip(Tail(s), chars) ELSE s

RECURSIVE RStrip(_, _)
RStrip(s, chars) ==
    IF s # <<>> /\ s[Len(s)] \in chars
    THEN RStrip(SubSeq(s, 1, Len(s) - 1), chars) ELSE s

Strip(s) == RStrip(LStrip(s, Whitespace), Whitespace)

\* str.split() without arguments: the maximal runs of non-whitespace.
RECURSIVE SplitWs(_)
RECURSIVE SplitWsAt(_, _)
SplitWsAt(s, at) ==
    IF at = 0 THEN <<s>>
    ELSE <<SubSeq(s, 1, at - 1)>> \o SplitWs(SubSeq(s, at + 1, Len(s)))

SplitWs(s) ==
    IF s = <<>> THEN <<>>
    ELSE IF Head(s) \in Whitespace THEN SplitWs(Tail(s))
    ELSE SplitWsAt(s, Find(s, Whitespace, 1))

\* str.splitlines(): lines end at "\r\n", "\n" or "\r"; no trailing empty line.
RECURSIVE SplitLines(_)
SplitLinesAt(s, at) ==
    IF at = 0 THEN <<s>>
    ELSE <<SubSeq(s, 1, at - 1)>>
             \o SplitLines(SubSeq(s,
                                  IF s[at] = CR /\ at < Len(s) /\ s[at + 1] = LF
                                  THEN at + 2 ELSE at + 1,
                                  Len(s)))

SplitLines(s) == IF s = <<>> THEN <<>> ELSE SplitLinesAt(s, Find(s, {CR, LF}, 1))

\* sep.join(parts).
RECURSIVE Join(_, _)
Join(parts, sep) ==
    IF parts = <<>> THEN <<>>
    ELSE IF Len(parts) = 1 THEN Head(parts)
    ELSE Head(parts) \o sep \o Join(Tail(parts), sep)

\* str.startswith(prefix).
StartsWith(s, prefix) ==
    Len(s) >= Len(prefix) /\ SubSeq(s, 1, Len(prefix)) = prefix

(***************************************************************************)
(* Request                                                                 *)
(***************************************************************************)

\* The ValueError Request.__init__ raises: an unpacking of the wrong size,
\* or list.index('') without a blank line.
ParseFailure == [ok |-> FALSE, error |-> "ValueError"]

\* self.headers, built from the header lines split at their first colon: a
\* later line of the same key overwrites an earlier one.
RECURSIVE HeadersUpTo(_, _)
HeadersUpTo(pairs, n) ==
    IF n = 0 THEN {}
    ELSE {kv \in HeadersUpTo(pairs, n - 1) : kv[1] # Strip(pairs[n][1])}
             \cup {<<Strip(pairs[n][1]), Strip(pairs[n][2])>>}

\* The fields of the Request, once the request line has its three tokens
\* and the blank line is found at index sep of the content.
RequestOf(tokens, content, pairs, sep) ==
    IF \E i \in 1..Len(pairs) : Len(pairs[i]) # 2 THEN ParseFailure
    ELSE [ok       |-> TRUE,
          method   |-> tokens[1],
          path     |-> tokens[2],
          protocol |-> tokens[3],
          headers  |-> HeadersUpTo(pairs, Len(pairs)),
          body     |-> Join(SubSeq(content, sep + 1, Len(content)), <<>>)]

\* content.index(''), 0 when list.index raises.
BlankLine(content) ==
    IF \E i \in 1..Len(content) : content[i] = <<>>
    THEN Least({i \in 1..Len(content) : content[i] = <<>>}) ELSE 0

ParseContent(tokens, content, sep) ==
    IF Len(tokens) # 3 THEN ParseFailure
    ELSE IF sep = 0 THEN ParseFailure
    ELSE RequestOf(tokens, content,
                   [i \in 1..(sep - 1) |-> SplitOnce(content[i], COLON)], sep)

\* bang, *content = lines.
ParseLines(lines) ==
    IF lines = <<>> THEN ParseFailure
    ELSE ParseContent(SplitWs(Head(lines)), Tail(lines), BlankLine(Tail(lines)))

\* Request.__init__(bites): the Request, or the failure raised.
ParseRequest(bites) == ParseLines(SplitLines(bites))

\* Request.__str__.
RequestStr(req) == req.method \o <<SP>> \o req.path

(***************************************************************************)
(* Python values: what a handler may return and what str() makes of it     *)
(***************************************************************************)

PyStr(s) == [t |-> "str", s |-> s]
PyInt(n) == [t |-> "int", n |-> n]
PyNone == [t |-> "NoneType"]

\* str(n) for an integer n.
RECURSIVE NatStr(_)
NatStr(n) ==
    LET digit == Chars("0123456789")[(n % 10) + 1]
    IN  IF n < 10 THEN <<digit>> ELSE NatStr(n \div 10) \o <<digit>>

IntStr(n) == IF n < 0 THEN <<"-">> \o NatStr(-n) ELSE NatStr(n)

(***************************************************************************)
(* StatusRegistry                                                          *)
(***************************************************************************)

\* The entries of `statuses` keyed by a class digit ("1" .. "5").
statusClasses ==
       "1" :> <<"Information", "">>
    @@ "2" :> <<"Successful", "">>
    @@ "3" :> <<"Redirection", "">>
    @@ "4" :> <<"Client Error", "">>
    @@ "5" :> <<"Server Error", "">>

\* The entries of `statuses` keyed by a numeric code.
statusCodes ==
       100 :> <<"Continue", "The server has received the request headers, and the client should proceed to send the request body">>
    @@ 101 :> <<"Switching Protocols", "The requester has asked the server to switch protocols">>
    @@ 103 :> <<"Checkpoint", "Used in the resumable requests proposal to resume aborted PUT or POST requests">>
    @@ 200 :> <<"OK", "The request is OK (this is the standard response for successful HTTP requests)">>
    @@ 201 :> <<"Created", "The request has been fulfilled, and a new resource is created">>
    @@ 202 :> <<"Accepted", "The request has been accepted for processing, but the processing has not been completed">>
    @@ 203 :> <<"Non-Authoritative Information", "The request has been successfully processed, but is returning information that may be from another source">>
    @@ 204 :> <<"No Content", "The request has been successfully processed, but is not returning any content">>
    @@ 205 :> <<"Reset Content", "The request has been successfully processed, but is not returning any content, and requires that the requester reset the document view">>
    @@ 206 :> <<"Partial Content", "The server is delivering only part of the resource due to a range header sent by the client">>
    @@ 300 :> <<"Multiple Choices", "A link list. The user can select a link and go to that location. Maximum five addresses">>
    @@ 301 :> <<"Moved Permanently", "The requested page has moved to a new URL">>
    @@ 302 :> <<"Found", "The requested page has moved temporarily to a new URL">>
    @@ 303 :> <<"See Other", "The requested page can be found under a different URL">>
    @@ 304 :> <<"Not Modified", "Indicates the requested page has not been modified since last requested">>
    @@ 306 :> <<"Switch Proxy", "-- No longer used --">>
    @@ 307 :> <<"Temporary Redirect", "The requested page has moved temporarily to a new URL">>
    @@ 308 :> <<"Resume Incomplete", "Used in the resumable requests proposal to resume aborted PUT or POST requests">>
    @@ 400 :> <<"Bad Request", "The request cannot be fulfilled due to bad syntax">>
    @@ 401 :> <<"Unauthorized", "The request was a legal request, but the server is refusing to respond to it. For use when authentication is possible but has failed or not yet been provided">>
    @@ 402 :> <<"Payment Required", "-- Reserved for future use --">>
    @@ 403 :> <<"Forbidden", "The request was a legal request, but the server is refusing to respond to it">>
    @@ 404 :> <<"Not Found", "The requested page could not be found but may be available again in the future">>
    @@ 405 :> <<"Method Not Allowed", "A request was made of a page using a request method not supported by that page">>
    @@ 406 :> <<"Not Acceptable", "The server can only generate a response that is not accepted by the client">>
    @@ 407 :> <<"Proxy Authentication Required", "The client must first authenticate itself with the proxy">>
    @@ 408 :> <<"Request Timeout", "The server timed out waiting for the request">>
    @@ 409 :> <<"Conflict", "The request could not be completed because of a conflict in the request">>
    @@ 410 :> <<"Gone", "The requested page is no longer available">>
    @@ 411 :> <<"Length Required", "The \"Content-Length\" is not defined. The server will not accept the request without it">>
    @@ 412 :> <<"Precondition Failed", "The precondition given in the request evaluated to false by the server">>
    @@ 413 :> <<"Request Entity Too Large", "The server will not accept the request, because the request entity is too large">>
    @@ 414 :> <<"Request-URI Too Long", "The server will not accept the request, because the URL is too long. Occurs when you convert a POST request to a GET request with a long query information">>
    @@ 415 :> <<"Unsupported Media Type", "The server will not accept the request, because the media type is not supported">>
    @@ 416 :> <<"Requested Range Not Satisfiable", "The client has asked for a portion of the file, but the server cannot supply that portion">>
    @@ 417 :> <<"Expectation Failed", "The server cannot meet the requirements of the Expect request-header field">>
    @@ 418 :> <<"I'm a teapot", "Any attempt to brew coffee with a teapot should result in the error code \"418 I'm a teapot\". The resulting entity body MAY be short and stout">>
    @@ 421 :> <<"Misdirected Request", "The request was directed at a server that is not able to produce a response (for example because a connection reuse)">>
    @@ 422 :> <<"Unprocessable Entity", "The request was well-formed but was unable to be followed due to semantic errors">>
    @@ 423 :> <<"Locked", "The resource that is being accessed is locked">>
    @@ 424 :> <<"Failed Dependency", "The request failed due to failure of a previous request (e.g., a PROPPATCH)">>
    @@ 426 :> <<"Upgrade Required", "The client should switch to a different protocol such as TLS\\/1.0, given in the Upgrade header field">>
    @@ 428 :> <<"Precondition Required", "The origin server requires the request to be conditional">>
    @@ 429 :> <<"Too Many Requests", "The user has sent too many requests in a given amount of time. Intended for use with rate limiting schemes">>
    @@ 431 :> <<"Request Header Fields Too Large", "The server is unwilling to process the request because either an individual header field, or all the header fields collectively, are too large">>
    @@ 451 :> <<"Unavailable For Legal Reasons", "A server operator has received a legal demand to deny access to a resource or to a set of resources that includes the requested resource">>
    @@ 500 :> <<"Internal Server Error", "An error has occured in a server side script, a no more specific message is suitable">>
    @@ 501 :> <<"Not Implemented", "The server either does not recognize the request method, or it lacks the ability to fulfill the request">>
    @@ 502 :> <<"Bad Gateway", "The server was acting as a gateway or proxy and received an invalid response from the upstream server">>
    @@ 503 :> <<"Service Unavailable", "The server is currently unavailable (overloaded or down)">>
    @@ 504 :> <<"Gateway Timeout", "The server was acting as a gateway or proxy and did not receive a timely response from the upstream server">>
    @@ 505 :> <<"HTTP Version Not Supported", "The server does not support the HTTP protocol version used in the request">>
    @@ 511 :> <<"Network Authentication Required", "The client needs to authenticate to gain network access">>

\* A lookup without the class entries.
getstatusStrict(code) ==
    IF code \in DOMAIN statusCodes
    THEN <<Chars(statusCodes[code][1]), Chars(statusCodes[code][2])>>
    ELSE <<Chars("Unknown"), Chars("The meaning of this HTTP status is unknown.")>>

\* getstatus(code) for an integer code. The default of statuses.get is
\* evaluated first: a code whose leading character is no class key ends in
\* the except branch, registered or not.
getstatus(code) ==
    LET cls == <<Head(IntStr(code))>>
        hit == \E k \in DOMAIN statusClasses : Chars(k) = cls
        cl  == CHOOSE k \in DOMAIN statusClasses : Chars(k) = cls
    IN  IF ~hit
        THEN <<Chars("Unknown"), Chars("The meaning of this HTTP status is unknown.")>>
        ELSE IF code \in DOMAIN statusCodes
        THEN <<Chars(statusCodes[code][1]), Chars(statusCodes[code][2])>>
        ELSE <<Chars(statusClasses[cl][1]), Chars(statusClasses[cl][2])>>

(***************************************************************************)
(* Response                                                                *)
(***************************************************************************)

\* dict[k] = v on a dict kept as the sequence of its items in iteration
\* order: an existing key keeps its place, a new one goes last.
SetItem(items, k, v) ==
    IF \E i \in 1..Len(items) : items[i][1] = k
    THEN [i \in 1..Len(items) |-> IF items[i][1] = k THEN <<k, v>> ELSE items[i]]
    ELSE Append(items, <<k, v>>)

\* dict(a, **b).
RECURSIVE Update(_, _)
Update(items, more) ==
    IF more = <<>> THEN items
    ELSE Update(SetItem(items, Head(more)[1], Head(more)[2]), Tail(more))

\* Response.headers, the class attribute with the defaults.
DefaultHeaders ==
    << <<Chars("server"), PyStr(Chars("mhask/0.0.0"))>>,
       <<Chars("content-type"), PyStr(Chars("text/plain"))>> >>

\* filter(bool, parts) on strings: the non-empty ones.
RECURSIVE NonEmpty(_)
NonEmpty(parts) ==
    IF parts = <<>> THEN <<>>
    ELSE IF Head(parts) = <<>> THEN NonEmpty(Tail(parts))
    ELSE <<Head(parts)>> \o NonEmpty(Tail(parts))

\* str(v) for the values of the model other than a Response.
PlainStr(v) ==
    CASE v.t = "str" -> v.s
      [] v.t = "int" -> IntStr(v.n)
      [] v.t = "NoneType" -> Chars("None")

\* Response.__init__(body, status, headers).
Response(body, status, headers) ==
    [t       |-> "Response",
     status  |-> status,
     body    |-> IF body.t # "NoneType" THEN PlainStr(body)
                 ELSE Join(NonEmpty(<<IntStr(status)>> \o getstatus(status)),
                           Chars(": ")),
     headers |-> Update(Update(<<>>, DefaultHeaders), headers)]

\* The Response as Response.__str__ leaves it: content-length is set to
\* len(self.body) before anything is formatted.
Rendered(resp) ==
    [resp EXCEPT !.headers =
        SetItem(@, Chars("content-length"), PyInt(Len(resp.body)))]

\* A status line that takes the description for the name.
StatusLineDescription(r) ==
    Chars("HTTP/1.0 ") \o IntStr(r.status) \o <<SP>> \o getstatus(r.status)[2]
        \o <<CR, LF>>

\* 'HTTP/1.0 %s %s\r\n' % (self.status, getstatus(self.status)[0]).
StatusLine(r) ==
    Chars("HTTP/1.0 ") \o IntStr(r.status) \o <<SP>> \o getstatus(r.status)[1]
        \o <<CR, LF>>

\* '%s: %s\r\n' % (k, v) for one header.
HeaderLine(kv) == kv[1] \o Chars(": ") \o PlainStr(kv[2]) \o <<CR, LF>>

\* The text of a Response whose content-length is set: the status line,
\* the headers in the order of the dict, a blank line, the body and "\r\n".
Format(r) ==
    StatusLine(r)
        \o Join([i \in 1..Len(r.headers) |-> HeaderLine(r.headers[i])], <<>>)
        \o <<CR, LF>> \o r.body \o <<CR, LF>>

\* A render that formats the headers before it sets content-length.
RenderTextStale(resp) == Format(resp)

\* The text Response.__str__ returns.
RenderText(resp) == Format(Rendered(resp))

(***************************************************************************)
(* HTTPException and the failures a handler may raise                      *)
(***************************************************************************)

NoException == [cls |-> "", status |-> 0, msg |-> <<>>]

\* HTTPException(msg, status=status).
HTTPException(msg, status) ==
    [cls |-> "HTTPException", status |-> status, msg |-> msg]

\* Any other Exception subclass, raised with one message argument.
Failure(cls, msg) == [cls |-> cls, status |-> 0, msg |-> msg]

(***************************************************************************)
(* App.route and App.resolve                                               *)
(***************************************************************************)

\* One item of App.endpoints: the key (route, tuple(methods)) and the
\* handler bound to it.
Binding(route, methods, callback) ==
    [route |-> route, methods |-> methods, callback |-> callback]

NoBinding == Binding(<<>>, <<>>, "")

\* App.route: self.endpoints[route, tuple(methods)] = f. The dict is kept as
\* the sequence of its items in iteration order.
RouteInsert(eps, b) ==
    IF \E i \in 1..Len(eps) : eps[i].route = b.route /\ eps[i].methods = b.methods
    THEN [i \in 1..Len(eps) |->
             IF eps[i].route = b.route /\ eps[i].methods = b.methods
             THEN b ELSE eps[i]]
    ELSE Append(eps, b)

\* A sort key that puts the shortest route first.
LengthKeyAscending(b) == 0 - Len(b.route)

\* The sort key of resolve: len(l[0][0]), the length of the route string.
LengthKey(b) == Len(b.route)

\* sorted(items, key=..., reverse=True): descending by key, items of equal
\* key in their original order.
RECURSIVE Sorted(_)
Sorted(items) ==
    IF items = <<>> THEN <<>>
    ELSE LET top == CHOOSE k \in {LengthKey(items[i]) : i \in 1..Len(items)} :
                        \A i \in 1..Len(items) : LengthKey(items[i]) <= k
             IsTop(b) == LengthKey(b) = top
             NotTop(b) == LengthKey(b) # top
         IN  SelectSeq(items, IsTop) \o Sorted(SelectSeq(items, NotTop))

\* A sort whose order among equal keys depends on what the call before did.
SortedEndpointsUnstable(eps) ==
    IF last.found
    THEN Sorted([i \in 1..Len(eps) |-> eps[Len(eps) + 1 - i]])
    ELSE Sorted(eps)

\* The sequence resolve iterates: the items of self.endpoints, sorted.
SortedEndpoints(eps) == Sorted(eps)

\* The regular expression '[^/].*' that stands for a capture, as one token.
WILD == "[^/].*"

\* c.replace(':%s' % c[1:], '[^/].*') for one component c of the route: the
\* text replaced is as long as c (or longer, for an empty c), so it occurs
\* in c only when c is ":" followed by the rest of c.
Component(c) ==
    IF c # <<>> /\ c = <<COLON>> \o Tail(c) THEN <<WILD>> ELSE c

\* '/'.join(...) of the components: the expression between '^' and '$', as
\* the sequence of its literal characters and WILD tokens.
PatternOf(parts) ==
    Join([i \in 1..Len(parts) |-> Component(parts[i])], <<SLASH>>)

Pattern(route) == PatternOf(SplitOn(route, SLASH))

\* ure.match('^...$', s): the whole of s is matched; a literal matches
\* itself, WILD matches one character other than "/" and then any
\* characters. (The routes of the model hold no other metacharacter.)
\* MatchAt: re from its i-th token on matches s from its j-th character on.
RECURSIVE MatchAt(_, _, _, _)
MatchAt(re, i, s, j) ==
    IF i > Len(re) THEN j > Len(s)
    ELSE IF j > Len(s) THEN FALSE
    ELSE IF re[i] = WILD
    THEN s[j] # SLASH /\ \E k \in j..Len(s) : MatchAt(re, i + 1, s, k + 1)
    ELSE re[i] = s[j] /\ MatchAt(re, i + 1, s, j + 1)

RegexMatch(re, s) == MatchAt(re, 1, s, 1)

\* A test that forgets the method set.
MethodIgnored(req, b) == TRUE

\* request.method in methods.
MethodAllowed(req, b) == \E i \in 1..Len(b.methods) : b.methods[i] = req.method

\* The test resolve applies to one binding.
Matches(req, b) == MethodAllowed(req, b) /\ RegexMatch(Pattern(b.route), req.path)

\* Arguments that bind an empty path component as well.
RECURSIVE ArgumentsWithEmpty(_, _, _)
ArgumentsWithEmpty(components, values, n) ==
    IF n = 0 THEN <<>>
    ELSE IF StartsWith(components[n], <<COLON>>)
    THEN SetItem(ArgumentsWithEmpty(components, values, n - 1),
                 LStrip(components[n], {COLON}), values[n])
    ELSE ArgumentsWithEmpty(components, values, n - 1)

\* The arguments dict of resolve, as its items in insertion order, after the
\* first n components of the route: a component that starts with ":" binds
\* the path's component of the same index, unless that is empty.
RECURSIVE ArgumentsUpTo(_, _, _)
ArgumentsUpTo(components, values, n) ==
    IF n = 0 THEN <<>>
    ELSE IF StartsWith(components[n], <<COLON>>) /\ Len(values[n]) # 0
    THEN SetItem(ArgumentsUpTo(components, values, n - 1),
                 LStrip(components[n], {COLON}), values[n])
    ELSE ArgumentsUpTo(components, values, n - 1)

Arguments(route, path) ==
    ArgumentsUpTo(SplitOn(route, SLASH), SplitOn(path, SLASH),
                  Len(SplitOn(route, SLASH)))

\* The loop of resolve: the index of the first binding from i on, in the
\* sorted order, that matches; 0 when the loop ends without one.
RECURSIVE FirstMatch(_, _, _)
FirstMatch(sorted, req, i) ==
    IF i > Len(sorted) THEN 0
    ELSE IF Matches(req, sorted[i]) THEN i
    ELSE FirstMatch(sorted, req, i + 1)

\* What resolve returns for the binding found, or the HTTPException it
\* raises without one.
Resolved(sorted, req, at) ==
    IF at = 0
    THEN [found     |-> FALSE,
          binding   |-> NoBinding,
          arguments |-> <<>>,
          raised    |-> HTTPException(
                            Chars("No route found for request ") \o RequestStr(req),
                            404)]
    ELSE [found     |-> TRUE,
          binding   |-> sorted[at],
          arguments |-> Arguments(sorted[at].route, req.path),
          raised    |-> NoException]

ResolveSorted(sorted, req) == Resolved(sorted, req, FirstMatch(sorted, req, 1))

\* App.resolve(request).
Resolve(eps, req) == ResolveSorted(SortedEndpoints(eps), req)

(***************************************************************************)
(* App.handle                                                              *)
(***************************************************************************)

\* App.request before any request was parsed (None).
NoRequest == [ok |-> FALSE, error |-> ""]

\* What one call of a handler does: return a value or raise.
Returns(value) == [do |-> "return", value |-> value, exc |-> NoException]
Raises(exc) == [do |-> "raise", value |-> PyNone, exc |-> exc]

\* A re-raise that does not look at the debug flag.
ReRaisedAlways(dbg, exc) == exc

\* `if self.debug: raise` in the `except Exception` branch.
ReRaised(dbg, exc) == IF dbg THEN exc ELSE NoException

\* `except HTTPException as e` / `except Exception as e`: the result built
\* for a failure raised by resolve or by the handler.
ResultFor(exc) ==
    IF exc.cls = "HTTPException"
    THEN Response(PyStr(exc.msg), exc.status, <<>>)
    ELSE Response(PyStr(Chars(exc.cls) \o Chars(": ") \o exc.msg), 500, <<>>)

\* An `except Exception` branch placed before `except HTTPException`.
EscapeOfAny(dbg, exc) == ReRaised(dbg, exc)

\* What leaves the try statement for a failure: nothing for an
\* HTTPException, the failure itself for another one when debug is set.
EscapeOf(dbg, exc) ==
    IF exc.cls = "HTTPException" THEN NoException ELSE ReRaised(dbg, exc)

\* A coercion without the isinstance test: a Response is wrapped as well,
\* by its text.
CoerceAlways(result) ==
    Response(IF result.t = "Response" THEN PyStr(RenderText(result)) ELSE result,
             200, <<>>)

\* `result if isinstance(result, Response) else Response(result)`.
Coerce(result) ==
    IF result.t = "Response" THEN result ELSE Response(result, 200, <<>>)

\* The record of a call of handle, before anything happened in it: the
\* bytes it was given, whether they parsed, what resolve returned, whether a
\* handler ran, with which keyword arguments, reading what in app.request
\* and doing what, the result built, the exception that left handle, and the
\* Response returned.
NoCall ==
    [bites     |-> <<>>,
     parsed    |-> FALSE,
     req       |-> NoRequest,
     table     |-> <<>>,
     debug     |-> FALSE,
     found     |-> FALSE,
     binding   |-> NoBinding,
     arguments |-> <<>>,
     invoked   |-> FALSE,
     kwargs    |-> <<>>,
     seen      |-> NoRequest,
     does      |-> Returns(PyNone),
     result    |-> PyNone,
     raised    |-> NoException,
     returned  |-> FALSE,
     response  |-> PyNone]

\* The end of handle once `result` is assigned: the Response is rendered
\* once for the debug log line, then returned.
Return(call, result) ==
    [call EXCEPT !.result = result,
                 !.returned = TRUE,
                 !.response = Rendered(Coerce(result))]

\* The except branches: the result is built, then the failure either
\* leaves handle or the result is returned.
Except(call, result, escaped) ==
    IF escaped # NoException
    THEN [call EXCEPT !.result = result, !.raised = escaped]
    ELSE Return(call, result)

\* The try statement of handle, `done` being what resolve and the handler
\* together did.
Try(call, dbg, done) ==
    IF done.do = "return" THEN Return(call, done.value)
    ELSE Except(call, ResultFor(done.exc), EscapeOf(dbg, done.exc))

\* handle after resolve: the handler is called with **arguments when resolve
\* returned, and not at all when it raised.
HandleResolved(call, dbg, res, does) ==
    Try([call EXCEPT !.found = res.found,
                     !.binding = res.binding,
                     !.arguments = res.arguments,
                     !.invoked = res.found,
                     !.kwargs = res.arguments,
                     !.does = IF res.found THEN does ELSE Returns(PyNone)],
        dbg,
        IF res.found THEN does ELSE Raises(res.raised))

\* What a handler may do when called: return a str, return None, return a
\* Response of its own, raise an HTTPException (with and without a
\* message), raise another failure.
Behaviours ==
    { Returns(PyStr(Chars("Hello"))),
      Returns(PyNone),
      Returns(Response(PyStr(Chars("{}")), 201,
                       << <<Chars("content-type"), PyStr(Chars("application/json"))>> >>)),
      Raises(HTTPException(Chars("Invalid JSON"), 400)),
      Raises(HTTPException(<<>>, 403)),
      Raises(Failure("ValueError", Chars("boom"))) }

\* handle from resolve on: one call for each thing the handler may do.
HandleResolve(call, dbg, res) ==
    {HandleResolved(call, dbg, res, does) : does \in Behaviours}

\* handle from Request(bytes) on: a failure of the constructor leaves handle
\* before self.request is assigned.
HandleParsed(call, eps, dbg, parse) ==
    IF ~parse.ok
    THEN {[call EXCEPT !.raised = Failure(parse.error, <<>>)]}
    ELSE HandleResolve([call EXCEPT !.parsed = TRUE, !.req = parse],
                       dbg, Resolve(eps, parse))

\* App.handle(bytes): the calls it may turn out to be.
Handle(eps, dbg, bites) ==
    HandleParsed([NoCall EXCEPT !.bites = bites, !.table = eps, !.debug = dbg],
                 eps, dbg, ParseRequest(bites))

\* A slot assigned before the Request is known to be built.
RequestSlotAlways(old, call) == call.req

\* self.request after a call of handle: assigned once the Request is built.
RequestSlot(old, call) == IF call.parsed THEN call.req ELSE old

\* A handler that runs before the slot is assigned reads what the slot held
\* when handle was called.
ObservedBefore(old, call) ==
    [call EXCEPT !.seen = IF call.invoked THEN old ELSE NoRequest]

\* What the handler reads in app.request: the slot is assigned on line 257
\* and the handler is called on line 260 of the same plain function, with
\* no suspension point between them.
Observed(old, call) ==
    [call EXCEPT !.seen = IF call.invoked THEN RequestSlot(old, call)
                          ELSE NoRequest]

\* App.handle(bytes) on an application whose slot holds `old`.
HandleFrom(old, eps, dbg, bites) ==
    {Observed(old, call) : call \in Handle(eps, dbg, bites)}

(***************************************************************************)
(* Request.json and the codec                                              *)
(***************************************************************************)

PyBool(b) == [t |-> "bool", b |-> b]
PyDict(items) == [t |-> "dict", items |-> items]
PyTuple(items) == [t |-> "tuple", items |-> items]

Digits == Chars("0123456789")

\* s is one or more decimal digits.
IsDigits(s) == s # <<>> /\ \A i \in 1..Len(s) : \E d \in 1..10 : Digits[d] = s[i]

\* The number a string of digits denotes.
RECURSIVE NatOf(_)
NatOf(s) ==
    IF s = <<>> THEN 0
    ELSE NatOf(SubSeq(s, 1, Len(s) - 1)) * 10
             + (CHOOSE d \in 0..9 : Digits[d + 1] = s[Len(s)])

\* s is a JSON integer.
IsInt(s) == IsDigits(s) \/ (s # <<>> /\ Head(s) = "-" /\ IsDigits(Tail(s)))

IntOf(s) == IF Head(s) = "-" THEN 0 - NatOf(Tail(s)) ELSE NatOf(s)

Decoded(value) == [ok |-> TRUE, value |-> value, error |-> <<>>]
Rejected == [ok |-> FALSE, value |-> PyNone, error |-> Chars("syntax error in JSON")]

\* An object of one member, '{"key": <integer>}', split at the quote that
\* ends the key (index q of t) and at the colon after it.
DecodeMember(t, q) ==
    IF q = 0 \/ q + 1 > Len(t) - 1 \/ t[q + 1] # COLON THEN Rejected
    ELSE IF ~IsInt(Strip(SubSeq(t, q + 2, Len(t) - 1))) THEN Rejected
    ELSE Decoded(PyDict(<< <<SubSeq(t, 3, q - 1),
                             PyInt(IntOf(Strip(SubSeq(t, q + 2, Len(t) - 1))))>> >>))

\* ujson.loads on text without surrounding whitespace, for the JSON texts of
\* the model: integers, null, true, false, the empty object and objects of
\* one integer member. Everything else is rejected, as malformed JSON is.
Decode(t) ==
    IF IsInt(t) THEN Decoded(PyInt(IntOf(t)))
    ELSE IF t = Chars("null") THEN Decoded(PyNone)
    ELSE IF t = Chars("true") THEN Decoded(PyBool(TRUE))
    ELSE IF t = Chars("false") THEN Decoded(PyBool(FALSE))
    ELSE IF t = Chars("{}") THEN Decoded(PyDict(<<>>))
    ELSE IF Len(t) >= 6 /\ SubSeq(t, 1, 2) = Chars("{\"") /\ t[Len(t)] = "}"
    THEN DecodeMember(t, IF Find(t, {"\""}, 3) = 0 THEN 0 ELSE Find(t, {"\""}, 3))
    ELSE Rejected

\* ujson.loads(text).
Loads(text) == Decode(Strip(text))

\* A failure raised without status=400: the default of HTTPException.
JsonRejectedDefaultStatus(failsafe, error) ==
    IF failsafe THEN Returns(PyNone)
    ELSE Raises(HTTPException(Chars("Invalid JSON (") \o error \o Chars(")"), 500))

\* The except branch of Request.json.
JsonRejected(failsafe, error) ==
    IF failsafe THEN Returns(PyNone)
    ELSE Raises(HTTPException(Chars("Invalid JSON (") \o error \o Chars(")"), 400))

\* Request.json(failsafe), once the codec has answered.
JsonOf(loaded, failsafe) ==
    IF loaded.ok THEN Returns(loaded.value) ELSE JsonRejected(failsafe, loaded.error)

\* Request.json(failsafe) of the Request req.
Json(req, failsafe) == JsonOf(Loads(req.body), failsafe)

(***************************************************************************)
(* Inputs                                                                  *)
(***************************************************************************)

\* The most bindings registered.
MaxRoutes == 2

GET == Chars("GET")
PUT == Chars("PUT")

\* The bindings an application may register: the index route of the
\* examples, the pair of the longer-pattern scenario (one of them for two
\* methods), and a pattern as long as "/users/:id" that matches the same
\* paths.
Bindings ==
    { Binding(Chars("/"), <<GET>>, "index"),
      Binding(Chars("/users/:id"), <<GET>>, "user"),
      Binding(Chars("/users/profile"), <<GET, PUT>>, "profile"),
      Binding(Chars("/:kind/:id"), <<GET>>, "generic") }

\* The head and the end of a well-formed request.
Wire(method, path) ==
    Chars(method) \o <<SP>> \o Chars(path) \o Chars(" HTTP/1.1\r\nHost: x\r\n\r\n")

\* Bytes that parse into a Request.
GoodBytes ==
    { Wire("GET", "/"),
      Wire("GET", "/nope"),
      Wire("GET", "/users/profile"),
      Wire("GET", "/users/42"),
      Wire("GET", "/users/1/2"),
      Wire("GET", "/a//b"),
      Wire("PUT", "/users/42") \o Chars("{\"id\": 42}") }

\* Bytes Request.__init__ fails on: nothing at all, a request line of two
\* tokens, one of four tokens, no blank line after the headers.
BadBytes ==
    { <<>>,
      Chars("GET /"),
      Chars("GET / HTTP/1.1 x\r\nHost: x\r\n\r\n"),
      Chars("GET / HTTP/1.1\r\nHost: x\r\n") }

(***************************************************************************)
(* State                                                                   *)
(***************************************************************************)

\* The polling driver: whether Timer.run made the listening socket, and
\* how the latest timer callback went (what accept did, and whether serve
\* returned or raised).
Polling(socket, accept, ended) ==
    [socket |-> socket, accept |-> accept, ended |-> ended]

\* Before Timer.run.
NoTimer == Polling("none", "none", "none")

\* A Response object in the hands of the application: the object, how many
\* times it was rendered, the text of the latest render and of the one
\* before, and whether the object was assigned to since the latest render
\* and between the two.
Held(obj, renders, out, prev, touched, between) ==
    [obj |-> obj, renders |-> renders, out |-> out, prev |-> prev,
     touched |-> touched, between |-> between]

\* No Response was made yet.
NoResponse == Held(PyNone, 0, <<>>, <<>>, FALSE, FALSE)

\* A call of getstatus or of Request.json: its argument and what it did.
Answer(op, arg, failsafe, outcome) ==
    [op |-> op, arg |-> arg, failsafe |-> failsafe, outcome |-> outcome]

NoAnswer == Answer("none", PyNone, FALSE, Returns(PyNone))

\* The names of the App instances of a process that has two.
Apps == {"a", "b"}

\* Two instances right after App(): nothing was registered through either,
\* neither has instance attributes (debug and request are read from the
\* class: False and None), and handle was never called.
NoApps ==
    [registered |-> [x \in Apps |-> {}],
     debug      |-> [x \in Apps |-> FALSE],
     request    |-> [x \in Apps |-> NoRequest],
     on         |-> "",
     last       |-> NoCall]

Init ==
    /\ endpoints = <<>>
    /\ debug = FALSE
    /\ request = NoRequest
    /\ last = NoCall
    /\ conns = <<>>
    /\ timer = NoTimer
    /\ held = NoResponse
    /\ answer = NoAnswer
    /\ apps = NoApps

\* @app.route(route, methods) applied to a handler.
Route(b) ==
    /\ Len(RouteInsert(endpoints, b)) <= MaxRoutes
    /\ endpoints' = RouteInsert(endpoints, b)
    /\ UNCHANGED <<debug, request, last, conns, timer, held, answer, apps>>

\* app.debug = v.
SetDebug(v) ==
    /\ debug' = v
    /\ UNCHANGED <<endpoints, request, last, conns, timer, held, answer, apps>>

\* app.handle(bites), called directly.
HandleCall(bites) ==
    \E call \in HandleFrom(request, endpoints, debug, bites) :
        /\ last' = call
        /\ request' = RequestSlot(request, call)
        /\ UNCHANGED <<endpoints, debug, conns, timer, held, answer, apps>>

Next ==
    \/ \E b \in Bindings : Route(b)
    \/ \E v \in BOOLEAN : SetDebug(v)
    \/ \E bites \in GoodBytes \cup BadBytes : HandleCall(bites)

Spec == Init /\ [][Next]_vars

(***************************************************************************)
(* Transport drivers: Asyncio.serve and Timer.serve                        *)
(***************************************************************************)

\* The most connections a behaviour accepts.
MaxConns == 2

\* The UTF-8 bytes of the characters outside ASCII that the model writes;
\* every other character is one byte.
Utf8 == [c \in {"U+00E9"} |-> <<"0xC3", "0xA9">>]

\* str.encode(): the bytes of a str, one token per byte; the characters
\* lo..hi of s are encoded half by half.
RECURSIVE EncodeRange(_, _, _)
EncodeRange(s, lo, hi) ==
    IF lo > hi THEN <<>>
    ELSE IF lo = hi
    THEN (IF s[lo] \in DOMAIN Utf8 THEN Utf8[s[lo]] ELSE <<s[lo]>>)
    ELSE EncodeRange(s, lo, (lo + hi) \div 2)
             \o EncodeRange(s, (lo + hi) \div 2 + 1, hi)

Encode(s) == EncodeRange(s, 1, Len(s))

\* A connection: the driver that accepted it, where its serve call is
\* ("read", "write", "close", then "done" when serve returned or "failed"
\* when serve raised), the handle call made for it, the I/O failure it met,
\* and what was done on the socket, in order.
Conn(driver, pc, handled, call, io, events) ==
    [driver |-> driver, pc |-> pc, handled |-> handled, call |-> call,
     io |-> io, events |-> events]

Written(bites) == <<"write", bites>>
Closed == <<"close">>

\* The bytes a client sends.
ServeBytes ==
    { Wire("GET", "/"), Wire("GET", "/nope"), Chars("GET /"), <<>> }

\* The routes the served application registers.
ServeBindings == { Binding(Chars("/"), <<GET>>, "index") }

\* A serve that calls aclose next, whatever handle did.
AfterHandleClose(call) == "close"

\* Where Asyncio.serve goes after self.app.handle(request): to the write
\* when handle returned; nowhere when it raised (serve has no try).
AfterHandle(call) == IF call.returned THEN "write" ELSE "failed"

\* uasyncio.start_server accepts a connection and starts serve(reader,
\* writer) for it.
AsyncAccept ==
    /\ Len(conns) < MaxConns
    /\ conns' = Append(conns, Conn("Asyncio", "read", FALSE, NoCall, "ok", <<>>))
    /\ UNCHANGED <<endpoints, debug, request, last, timer, held, answer, apps>>

\* request = yield from reader.read(), then `if request:` and
\* response = self.app.handle(request).
AsyncRead(i) ==
    /\ conns[i].driver = "Asyncio"
    /\ conns[i].pc = "read"
    /\ \/ /\ conns' = [conns EXCEPT ![i].pc = "failed", ![i].io = "read failed"]
          /\ UNCHANGED request
       \/ /\ conns' = [conns EXCEPT ![i].pc = "close"]
          /\ UNCHANGED request
       \/ \E bites \in ServeBytes \ {<<>>} :
              \E call \in HandleFrom(request, endpoints, debug, bites) :
                  /\ conns' = [conns EXCEPT ![i].pc = AfterHandle(call),
                                            ![i].handled = TRUE,
                                            ![i].call = call]
                  /\ request' = RequestSlot(request, call)
    /\ UNCHANGED <<endpoints, debug, last, timer, held, answer, apps>>

\* bytes = str(response).encode(); yield from writer.awrite(bytes).
AsyncWrite(i) ==
    /\ conns[i].driver = "Asyncio"
    /\ conns[i].pc = "write"
    /\ \/ conns' = [conns EXCEPT
                        ![i].pc = "close",
                        ![i].events = Append(@,
                            Written(Encode(RenderText(conns[i].call.response))))]
       \/ conns' = [conns EXCEPT ![i].pc = "failed", ![i].io = "write failed"]
    /\ UNCHANGED <<endpoints, debug, request, last, timer, held, answer, apps>>

\* yield from writer.aclose().
AsyncClose(i) ==
    /\ conns[i].driver = "Asyncio"
    /\ conns[i].pc = "close"
    /\ conns' = [conns EXCEPT ![i].pc = "done", ![i].events = Append(@, Closed)]
    /\ UNCHANGED <<endpoints, debug, request, last, timer, held, answer, apps>>

\* The second try statement of Timer.serve for one handle call: handle,
\* sendall, and conn.close() in the finally clause.
TimerServed(call, sent) ==
    IF ~call.returned
    THEN Conn("Timer", "failed", TRUE, call, "ok", <<Closed>>)
    ELSE IF sent
    THEN Conn("Timer", "done", TRUE, call, "ok",
              <<Written(Encode(RenderText(call.response))), Closed>>)
    ELSE Conn("Timer", "failed", TRUE, call, "write failed", <<Closed>>)

\* Timer.run: the listening socket is bound with a timeout of 0.1 s and the
\* timer starts calling serve.
TimerRun ==
    /\ timer.socket = "none"
    /\ timer' = Polling("listening", "none", "none")
    /\ UNCHANGED <<endpoints, debug, request, last, conns, held, answer, apps>>

\* An accept timeout caught by a handler for another exception class.
AcceptTimeoutUncaught(t) == Polling(t.socket, "timeout", "raised")

\* self.socket.accept() raises OSError at its timeout: `except OSError:
\* return`.
AcceptTimeout(t) == Polling(t.socket, "timeout", "returned")

\* How serve ended for the connection it accepted.
TimerEnded(conn) == IF conn.pc = "done" THEN "returned" ELSE "raised"

\* One run of the timer callback, Timer.serve: accept may time out
\* (OSError: return), recv may fail after accept succeeded (OSError: return),
\* and otherwise the bytes are handled and the response is sent.
TimerServe ==
    /\ timer.socket = "listening"
    /\ Len(conns) < MaxConns
    /\ \/ /\ timer' = AcceptTimeout(timer)
          /\ UNCHANGED <<conns, request>>
       \/ /\ conns' = Append(conns,
                 Conn("Timer", "done", FALSE, NoCall, "read failed", <<>>))
          /\ timer' = Polling(timer.socket, "ok", "returned")
          /\ UNCHANGED request
       \/ \E bites \in ServeBytes :
              \E call \in HandleFrom(request, endpoints, debug, bites) :
                  \E sent \in BOOLEAN :
                      /\ conns' = Append(conns, TimerServed(call, sent))
                      /\ timer' = Polling(timer.socket, "ok",
                                          TimerEnded(TimerServed(call, sent)))
                      /\ request' = RequestSlot(request, call)
    /\ UNCHANGED <<endpoints, debug, last, held, answer, apps>>

NextServe ==
    \/ \E b \in ServeBindings : Route(b)
    \/ \E v \in BOOLEAN : SetDebug(v)
    \/ AsyncAccept
    \/ \E i \in 1..Len(conns) : AsyncRead(i)
    \/ \E i \in 1..Len(conns) : AsyncWrite(i)
    \/ \E i \in 1..Len(conns) : AsyncClose(i)
    \/ TimerRun
    \/ TimerServe

SpecServe == Init /\ [][NextServe]_vars

(***************************************************************************)
(* Response objects, getstatus and Request.json on their own               *)
(***************************************************************************)

\* The most renders of one Response object.
MaxRenders == 2

\* The text "café": its last character is outside ASCII.
Cafe == Chars("caf") \o <<"U+00E9">>

ContentType == Chars("content-type")
ApplicationJson == PyStr(Chars("application/json"))

\* What a Response is constructed with.
ResponseBodies == { PyNone, PyStr(Cafe) }
ResponseStatuses == { 200, 460 }
ResponseHeaders == { <<>>, << <<ContentType, ApplicationJson>> >> }

\* What an application assigns to the body and to a header afterwards.
AssignedBodies == { Chars("Bye") }
AssignedHeaders == { <<Chars("content-length"), PyInt(999)>> }

\* The codes getstatus is asked for.
StatusInputs ==
    {0 - 404, 999, 1000, 5000} \cup (0..12) \cup (95..105) \cup (195..210)
        \cup (295..310) \cup (395..432) \cup (445..465) \cup (495..515)
        \cup (595..605)

\* Requests whose body is given to the codec.
JsonBytes ==
    { Wire("PUT", "/") \o Chars(body) :
          body \in { "", "not json", "{\"id\": 42}", " 42 ", "null", "{\"id\": }" } }

\* Response(body, status, headers).
NewResponse(body, status, headers) ==
    /\ held' = Held(Response(body, status, headers), 0, <<>>, <<>>, FALSE, FALSE)
    /\ UNCHANGED <<endpoints, debug, request, last, conns, timer, answer, apps>>

\* response.body = body.
SetBody(body) ==
    /\ held.obj # PyNone
    /\ held' = [held EXCEPT !.obj.body = body, !.touched = TRUE]
    /\ UNCHANGED <<endpoints, debug, request, last, conns, timer, answer, apps>>

\* response.status = status.
SetStatus(status) ==
    /\ held.obj # PyNone
    /\ held' = [held EXCEPT !.obj.status = status, !.touched = TRUE]
    /\ UNCHANGED <<endpoints, debug, request, last, conns, timer, answer, apps>>

\* response.headers[k] = v.
SetHeader(kv) ==
    /\ held.obj # PyNone
    /\ held' = [held EXCEPT !.obj.headers = SetItem(@, kv[1], kv[2]),
                            !.touched = TRUE]
    /\ UNCHANGED <<endpoints, debug, request, last, conns, timer, answer, apps>>

\* str(response): content-length is stored in the object's headers and the
\* text is returned.
Render ==
    /\ held.obj # PyNone
    /\ held.renders < MaxRenders
    /\ held' = Held(Rendered(held.obj), held.renders + 1,
                    RenderText(held.obj), held.out, FALSE, held.touched)
    /\ UNCHANGED <<endpoints, debug, request, last, conns, timer, answer, apps>>

\* getstatus(code).
GetStatus(code) ==
    /\ answer' = Answer("getstatus", PyInt(code), FALSE,
                        Returns(PyTuple(getstatus(code))))
    /\ UNCHANGED <<endpoints, debug, request, last, conns, timer, held, apps>>

\* Request(bites).json(failsafe).
JsonCall(bites, failsafe) ==
    /\ ParseRequest(bites).ok
    /\ answer' = Answer("json", PyStr(ParseRequest(bites).body), failsafe,
                        Json(ParseRequest(bites), failsafe))
    /\ UNCHANGED <<endpoints, debug, request, last, conns, timer, held, apps>>

NextValues ==
    \/ \E body \in ResponseBodies, status \in ResponseStatuses,
          headers \in ResponseHeaders : NewResponse(body, status, headers)
    \/ \E body \in AssignedBodies : SetBody(body)
    \/ \E status \in ResponseStatuses : SetStatus(status)
    \/ \E kv \in AssignedHeaders : SetHeader(kv)
    \/ Render

SpecValues == Init /\ [][NextValues]_vars

NextLookups ==
    \/ \E code \in StatusInputs : GetStatus(code)
    \/ \E bites \in JsonBytes, failsafe \in BOOLEAN : JsonCall(bites, failsafe)

SpecLookups == Init /\ [][NextLookups]_vars

(***************************************************************************)
(* Properties of App.handle and App.resolve                                *)
(***************************************************************************)

\* The items of a dict kept as a sequence.
Items(d) == {d[i] : i \in 1..Len(d)}

\* sub in s.
Contains(s, sub) ==
    \E i \in 1..(Len(s) - Len(sub) + 1) : SubSeq(s, i, i + Len(sub) - 1) = sub

\* The failure that resolve or the handler raised in the latest call.
RaisedInTry ==
    IF last.invoked THEN last.does.exc ELSE Resolve(last.table, last.req).raised

\* C2: an HTTPException(m, status=s) raised by resolve or by the handler
\* does not leave handle, with debug on or off: handle returns a Response of
\* status s and body m.
Thm_C2 ==
    (last.parsed /\ RaisedInTry.cls = "HTTPException") =>
        /\ last.returned
        /\ last.raised = NoException
        /\ last.response.t = "Response"
        /\ last.response.status = RaisedInTry.status
        /\ last.response.body = RaisedInTry.msg

\* C2 witness: with debug on, a handler raised HTTPException("Invalid JSON",
\* status=400) and handle returned.
Wit_C2 ==
    /\ last.debug
    /\ last.invoked
    /\ last.does = Raises(HTTPException(Chars("Invalid JSON"), 400))
    /\ last.returned

\* The latest call invoked a handler that raised a failure other than an
\* HTTPException.
HandlerFailed ==
    last.invoked /\ last.does.do = "raise" /\ last.does.exc.cls # "HTTPException"

\* C3: when the handler raises another failure, the Response of status 500
\* and body "<kind>: <message>" is built; with debug off it is returned and
\* nothing is raised, with debug on the failure is re-raised; and a parsed
\* request makes handle raise only when debug is on.
Thm_C3 ==
    /\ HandlerFailed =>
           /\ last.result.t = "Response"
           /\ last.result.status = 500
           /\ last.result.body =
                  Chars(last.does.exc.cls) \o Chars(": ") \o last.does.exc.msg
           /\ ~last.debug =>
                  /\ last.returned
                  /\ last.raised = NoException
                  /\ last.response.status = 500
                  /\ last.response.body = last.result.body
           /\ last.debug =>
                  /\ ~last.returned
                  /\ last.raised = last.does.exc
    /\ (last.parsed /\ last.raised # NoException) => last.debug

\* C3 witness: with debug on, a handler raised ValueError("boom") and it
\* left handle after the Response 500 was built.
Wit_C3 ==
    /\ HandlerFailed
    /\ last.debug
    /\ last.raised = Failure("ValueError", Chars("boom"))
    /\ last.result.status = 500

\* No binding of the table the latest call saw has both the request's
\* method in its method set and a pattern that matches the path.
Unmatched ==
    /\ last.parsed
    /\ \A b \in Items(last.table) :
           ~(/\ \E i \in 1..Len(b.methods) : b.methods[i] = last.req.method
             /\ RegexMatch(Pattern(b.route), last.req.path))

\* C4: for a request no binding matches, resolve raises HTTPException with
\* status 404, no handler is invoked, and handle returns a Response of
\* status 404 whose body contains "No route found".
Thm_C4 ==
    Unmatched =>
        /\ ~last.found
        /\ ~last.invoked
        /\ RaisedInTry.cls = "HTTPException"
        /\ RaisedInTry.status = 404
        /\ last.returned
        /\ last.response.status = 404
        /\ Contains(last.response.body, Chars("No route found"))

\* C4 witness: a binding's pattern matches the path, but the method is in
\* no such binding's method set, and handle returned 404.
Wit_C4 ==
    /\ Unmatched
    /\ \E b \in Items(last.table) : RegexMatch(Pattern(b.route), last.req.path)
    /\ last.returned
    /\ last.response.status = 404

UsersId == Chars("/users/:id")
UsersProfile == Chars("/users/profile")

\* Both bindings of the longer-pattern scenario are registered for the
\* request's method, and no other binding of the table matches the request.
ScenarioTable ==
    /\ \E b \in Items(last.table) : b.route = UsersId /\ MethodAllowed(last.req, b)
    /\ \E b \in Items(last.table) : b.route = UsersProfile /\ MethodAllowed(last.req, b)
    /\ \A b \in Items(last.table) :
           Matches(last.req, b) => b.route \in {UsersId, UsersProfile}

\* C5: resolve selects a binding exactly when one matches, the binding
\* selected matches and is as long as any binding that matches; with
\* "/users/:id" and "/users/profile" registered, "/users/profile" selects
\* "/users/profile" and "/users/<other segment>" selects "/users/:id".
Thm_C5 ==
    last.parsed =>
        /\ last.found <=> \E b \in Items(last.table) : Matches(last.req, b)
        /\ last.found =>
               /\ last.binding \in Items(last.table)
               /\ Matches(last.req, last.binding)
               /\ \A b \in Items(last.table) :
                      Matches(last.req, b) =>
                          Len(b.route) <= Len(last.binding.route)
        /\ (ScenarioTable /\ last.req.path = UsersProfile) =>
               last.found /\ last.binding.route = UsersProfile
        /\ (/\ ScenarioTable
            /\ last.req.path # UsersProfile
            /\ Len(SplitOn(last.req.path, SLASH)) = 3
            /\ SplitOn(last.req.path, SLASH)[2] = Chars("users")
            /\ SplitOn(last.req.path, SLASH)[3] # <<>>) =>
               last.found /\ last.binding.route = UsersId

\* C5 witness: "/users/:id" was registered before "/users/profile", both
\* match GET /users/profile, and "/users/profile" was selected.
Wit_C5 ==
    /\ last.found
    /\ ScenarioTable
    /\ last.table[1].route = UsersId
    /\ last.req.path = UsersProfile
    /\ Matches(last.req, last.table[1])
    /\ last.binding.route = UsersProfile

\* C6, as claimed: resolve never selects a binding for a path of more
\* "/"-separated segments than the binding's pattern has.
Claim_C6 ==
    last.found =>
        Len(SplitOn(last.req.path, SLASH)) <= Len(SplitOn(last.binding.route, SLASH))

\* C7: the arguments resolve returns are the handler's keyword arguments;
\* each capture ":name" at index i whose path segment at index i is not
\* empty is bound under "name" to that segment, and nothing else is bound.
Thm_C7 ==
    last.found =>
        LET comps == SplitOn(last.binding.route, SLASH)
            segs  == SplitOn(last.req.path, SLASH)
        IN  /\ Len(segs) >= Len(comps)
            /\ \A i \in 1..Len(comps) :
                   (Head(comps[i] \o <<SP>>) = COLON /\ segs[i] # <<>>) =>
                       <<Tail(comps[i]), segs[i]>> \in Items(last.arguments)
            /\ \A kv \in Items(last.arguments) :
                   \E i \in 1..Len(comps) :
                       /\ comps[i] = <<COLON>> \o kv[1]
                       /\ segs[i] = kv[2]
                       /\ segs[i] # <<>>
            /\ \A i, j \in 1..Len(last.arguments) :
                   last.arguments[i][1] = last.arguments[j][1] => i = j
            /\ last.invoked
            /\ last.kwargs = last.arguments

\* C7 witness: a pattern of two captures was selected for a path whose
\* segment at the second capture is empty; one argument was bound and passed.
Wit_C7 ==
    /\ last.found
    /\ last.binding.route = Chars("/:kind/:id")
    /\ last.req.path = Chars("/a//b")
    /\ last.invoked
    /\ last.kwargs = << <<Chars("kind"), Chars("a")>> >>

\* A call of handle has been made.
Called == last.returned \/ last.raised # NoException

Ended(c) == c.pc \in {"done", "failed"}

\* The bytes received on connection c were handed to handle and parsed.
ParsedOn(c) == c.handled /\ c.call.parsed

\* The writes made on connection c.
Writes(c) == SelectSeq(c.events, LAMBDA e : e[1] = "write")

\* C1, as claimed: every connection whose bytes parsed and whose serve call
\* ended without an I/O failure had exactly one response written, and was
\* then closed.
Claim_C1 ==
    \A i \in 1..Len(conns) :
        (ParsedOn(conns[i]) /\ Ended(conns[i]) /\ conns[i].io = "ok") =>
            /\ Len(conns[i].events) = 2
            /\ conns[i].events[1][1] = "write"
            /\ conns[i].events[2] = Closed

\* C1, amended: on a connection whose bytes parsed, nothing is written
\* after the close and at most one response is written; once serve ended,
\* if handle returned and the write succeeded, exactly the rendered response
\* was written and then the connection was closed; handle did not return
\* only with debug on and a handler failure that is not an HTTPException,
\* and then nothing was written.
Thm_C1 ==
    \A i \in 1..Len(conns) :
        ParsedOn(conns[i]) =>
            /\ Len(Writes(conns[i])) <= 1
            /\ \A k \in 1..Len(conns[i].events) :
                   conns[i].events[k] = Closed => k = Len(conns[i].events)
            /\ (Ended(conns[i]) /\ conns[i].call.returned /\ conns[i].io = "ok") =>
                   conns[i].events =
                       << Written(Encode(RenderText(conns[i].call.response))),
                          Closed >>
            /\ ~conns[i].call.returned =>
                   /\ conns[i].call.debug
                   /\ conns[i].call.invoked
                   /\ conns[i].call.raised.cls \notin {"", "HTTPException"}
                   /\ Writes(conns[i]) = <<>>

\* C1 witness: a connection of either driver was served; on the one of the
\* timer the handler raised ValueError with debug on and nothing was
\* written; on the cooperative one a response was written, then it was
\* closed.
Wit_C1 ==
    /\ \E i \in 1..Len(conns) :
           /\ conns[i].driver = "Timer"
           /\ ParsedOn(conns[i])
           /\ conns[i].call.debug
           /\ conns[i].call.raised.cls = "ValueError"
           /\ conns[i].events = <<Closed>>
    /\ \E i \in 1..Len(conns) :
           /\ conns[i].driver = "Asyncio"
           /\ ParsedOn(conns[i])
           /\ conns[i].pc = "done"
           /\ Len(Writes(conns[i])) = 1
           /\ conns[i].events[2] = Closed

\* C9, as claimed: every connection accept returned inside Timer.serve is
\* closed when that serve call has ended.
Claim_C9 ==
    \A i \in 1..Len(conns) :
        (conns[i].driver = "Timer" /\ Ended(conns[i])) =>
            \E k \in 1..Len(conns[i].events) : conns[i].events[k] = Closed

\* C10, as claimed: when the bytes handed to handle fail to parse, handle
\* raises, nothing is written, and the connection is closed when serve has
\* ended, with either driver.
Claim_C10 ==
    \A i \in 1..Len(conns) :
        (conns[i].handled /\ ~conns[i].call.parsed /\ Ended(conns[i])) =>
            /\ conns[i].call.raised # NoException
            /\ Writes(conns[i]) = <<>>
            /\ \E k \in 1..Len(conns[i].events) : conns[i].events[k] = Closed

(***************************************************************************)
(* Properties of Request.__init__ and the current-request slot             *)
(***************************************************************************)

\* The whitespace-separated tokens of the first of the lines.
FirstLineTokens(lines) == IF lines = <<>> THEN <<>> ELSE SplitWs(Head(lines))

\* A line after the first one is empty.
HasBlankLine(lines) == \E i \in 2..Len(lines) : lines[i] = <<>>

\* The first line is not three tokens, or no blank line ends the headers.
MalformedLines(lines) ==
    Len(FirstLineTokens(lines)) # 3 \/ ~HasBlankLine(lines)

Malformed(bites) == MalformedLines(SplitLines(bites))

\* C11: for bytes whose first line is not three tokens or that have no
\* blank line, handle raises the constructor's failure, resolves nothing,
\* invokes no handler and builds no Response; and such a call leaves the
\* current-request slot as it was.
Thm_C11 ==
    /\ [](Called /\ Malformed(last.bites) =>
              /\ ~last.parsed
              /\ last.raised.cls = "ValueError"
              /\ ~last.returned
              /\ ~last.found
              /\ ~last.invoked
              /\ last.result = PyNone
              /\ last.response = PyNone)
    /\ [][request' # request => ~(Called' /\ Malformed(last'.bites))]_vars

\* C11 witness: a request line of four tokens followed by a blank line
\* made handle raise while the slot holds a Request parsed before.
Wit_C11 ==
    /\ Called
    /\ Len(FirstLineTokens(SplitLines(last.bites))) = 4
    /\ HasBlankLine(SplitLines(last.bites))
    /\ ~last.parsed
    /\ last.raised.cls = "ValueError"
    /\ request.ok

(***************************************************************************)
(* Properties of the accept timeout of Timer.serve                         *)
(***************************************************************************)

\* C12: a timer callback whose accept timed out returned without raising
\* and left the listening socket open; the step that takes it changes no
\* connection (nothing handled, written or closed) and not the slot.
Thm_C12 ==
    /\ [](timer.accept = "timeout" =>
              timer.ended = "returned" /\ timer.socket = "listening")
    /\ [][(timer'.accept = "timeout" /\ timer.accept # "timeout") =>
              conns' = conns /\ request' = request]_vars

\* C12 witness: the latest callback timed out in accept, after an earlier
\* one served a connection that is still what it was.
Wit_C12 ==
    /\ timer.accept = "timeout"
    /\ timer.ended = "returned"
    /\ \E i \in 1..Len(conns) :
           conns[i].driver = "Timer" /\ conns[i].events # <<>>

(***************************************************************************)
(* Properties of Response.__str__                                          *)
(***************************************************************************)

\* The held Response was rendered and not assigned to since: `out` is the
\* text of the object as it is.
RenderedAsIs == held.renders > 0 /\ ~held.touched

\* C13, as claimed: the text of a render carries a content-length header
\* whose value is the number of bytes the body encodes to.
Claim_C13 ==
    RenderedAsIs =>
        Contains(held.out,
                 <<CR, LF>> \o Chars("content-length: ")
                     \o IntStr(Len(Encode(held.obj.body))) \o <<CR, LF>>)

\* C14, as claimed: the text of a render starts with the line
\* "HTTP/1.1 <status> <name>".
Claim_C14 ==
    RenderedAsIs =>
        StartsWith(held.out,
                   Chars("HTTP/1.1 ") \o IntStr(held.obj.status) \o <<SP>>
                       \o getstatus(held.obj.status)[1] \o <<CR, LF>>)

\* C14, amended: the text of a render starts with the line
\* "HTTP/1.0 <status> <name>", of the object's status at that render and
\* the name getstatus gives for it.
Thm_C14 ==
    RenderedAsIs =>
        StartsWith(held.out,
                   Chars("HTTP/1.0 ") \o IntStr(held.obj.status) \o <<SP>>
                       \o getstatus(held.obj.status)[1] \o <<CR, LF>>)

\* C14 witness: a Response whose status is the unregistered 460 was
\* rendered with the name of the class "4".
Wit_C14 ==
    /\ RenderedAsIs
    /\ held.obj.status = 460
    /\ StartsWith(held.out, Chars("HTTP/1.0 460 Client Error\r\n"))

\* C15: two renders in a row of a Response that was not assigned to in
\* between give the same text.
Thm_C15 ==
    (held.renders >= 2 /\ ~held.between) => held.out = held.prev

\* C15 witness: a Response constructed without a content-length header was
\* rendered twice, nothing assigned in between, and the text carries
\* content-length.
Wit_C15 ==
    /\ held.renders = 2
    /\ ~held.between
    /\ held.prev # <<>>
    /\ held.out = held.prev
    /\ Contains(held.out, Chars("\r\ncontent-length: 4\r\n"))

(***************************************************************************)
(* Properties of getstatus and Request.json                                *)
(***************************************************************************)

\* The first decimal digit of a natural number.
RECURSIVE LeadingDigit(_)
LeadingDigit(n) == IF n < 10 THEN n ELSE LeadingDigit(n \div 10)

\* The pair the claim names for an integer code.
ExpectedStatus(code) ==
    IF code \in DOMAIN statusCodes
    THEN <<Chars(statusCodes[code][1]), Chars(statusCodes[code][2])>>
    ELSE IF code >= 0 /\ LeadingDigit(code) \in 1..5
    THEN << Chars(statusClasses[<<"1", "2", "3", "4", "5">>[LeadingDigit(code)]][1]),
            Chars(statusClasses[<<"1", "2", "3", "4", "5">>[LeadingDigit(code)]][2]) >>
    ELSE <<Chars("Unknown"), Chars("The meaning of this HTTP status is unknown.")>>

\* C17: getstatus returns a pair and raises nothing: the entry of the code
\* when it has one, else the entry of the class of its first digit, else
\* the "Unknown" pair.
Thm_C17 ==
    answer.op = "getstatus" =>
        /\ answer.outcome.do = "return"
        /\ answer.outcome.value.t = "tuple"
        /\ Len(answer.outcome.value.items) = 2
        /\ answer.outcome.value.items = ExpectedStatus(answer.arg.n)

\* C17 witness: the unregistered code 460 gave the entry of the class "4".
Wit_C17 ==
    /\ answer.op = "getstatus"
    /\ answer.arg = PyInt(460)
    /\ answer.outcome.value.items[1] = Chars("Client Error")

\* C18: for a body the codec rejects, json(failsafe=True) returns None and
\* raises nothing and json(failsafe=False) raises an HTTPException of status
\* 400; for a body the codec accepts both return the decoded value.
Thm_C18 ==
    answer.op = "json" =>
        IF Loads(answer.arg.s).ok
        THEN answer.outcome = Returns(Loads(answer.arg.s).value)
        ELSE /\ answer.failsafe => answer.outcome = Returns(PyNone)
             /\ ~answer.failsafe =>
                    /\ answer.outcome.do = "raise"
                    /\ answer.outcome.exc.cls = "HTTPException"
                    /\ answer.outcome.exc.status = 400

\* C18 witness: json(failsafe=False) on the body "not json" raised an
\* HTTPException of status 400.
Wit_C18 ==
    /\ answer.op = "json"
    /\ answer.arg = PyStr(Chars("not json"))
    /\ ~answer.failsafe
    /\ answer.outcome.do = "raise"
    /\ answer.outcome.exc.status = 400

(***************************************************************************)
(* Properties of the result coercion of App.handle                         *)
(***************************************************************************)

\* The latest call invoked a handler that returned.
HandlerReturned == last.invoked /\ last.does.do = "return"

\* Response.headers as a dict.
ServerAndContentType ==
    << <<Chars("server"), PyStr(Chars("mhask/0.0.0"))>>,
       <<Chars("content-type"), PyStr(Chars("text/plain"))>> >>

\* C16, as claimed: a Response the handler returned is returned as it is,
\* and another value gives a Response of status 200 and the default headers
\* whose body is the string form of the value.
Claim_C16 ==
    HandlerReturned =>
        /\ last.returned
        /\ IF last.does.value.t = "Response"
           THEN last.response = last.does.value
           ELSE /\ last.response.status = 200
                /\ last.response.headers = ServerAndContentType
                /\ last.response.body = PlainStr(last.does.value)

\* C16, amended: a Response the handler returned is returned with its
\* status and body as they are and its headers as they are but for
\* content-length, which is set to the length of the body; another value
\* gives a Response of status 200 with the default headers and that
\* content-length, whose body is the string form of the value, or
\* "200: OK: " and the description of status 200 when the value is None.
Thm_C16 ==
    HandlerReturned =>
        /\ last.returned
        /\ last.raised = NoException
        /\ last.response.t = "Response"
        /\ Len(last.response.headers) >= 1
        /\ last.response.headers[Len(last.response.headers)] =
               <<Chars("content-length"), PyInt(Len(last.response.body))>>
        /\ IF last.does.value.t = "Response"
           THEN /\ last.response.status = last.does.value.status
                /\ last.response.body = last.does.value.body
                /\ SubSeq(last.response.headers, 1, Len(last.response.headers) - 1)
                       = last.does.value.headers
           ELSE /\ last.response.status = 200
                /\ SubSeq(last.response.headers, 1, Len(last.response.headers) - 1)
                       = ServerAndContentType
                /\ last.response.body =
                       IF last.does.value = PyNone
                       THEN Chars("200: OK: The request is OK (this is the standard response for successful HTTP requests)")
                       ELSE PlainStr(last.does.value)

\* C16 witness: the handler returned a Response of status 201 and
\* content-type application/json, and handle returned it with
\* content-length added.
Wit_C16 ==
    /\ HandlerReturned
    /\ last.does.value.t = "Response"
    /\ last.response.status = 201
    /\ Len(last.response.headers) = 3
    /\ last.response.headers[2] =
           <<Chars("content-type"), PyStr(Chars("application/json"))>>
    /\ last.response.headers[3] = <<Chars("content-length"), PyInt(2)>>

(***************************************************************************)
(* The current-request slot under interleaved connections                  *)
(***************************************************************************)

\* Connection i of the next state was handled by this step.
HandledNow(i) ==
    /\ conns'[i].handled
    /\ i > Len(conns) \/ ~conns[i].handled

\* C19: whenever a handler ran for a connection, what it read in
\* app.request is the Request parsed from that connection's bytes; every
\* step that parses a Request leaves it in the slot, and the slot changes
\* in no other step, so it holds the most recently parsed Request while
\* connections interleave at their reads and writes.
Thm_C19 ==
    /\ [](\A i \in 1..Len(conns) :
              conns[i].call.invoked =>
                  /\ conns[i].call.seen = conns[i].call.req
                  /\ conns[i].call.req = ParseRequest(conns[i].call.bites))
    /\ [][\A i \in 1..Len(conns') :
              HandledNow(i) /\ conns'[i].call.parsed =>
                  request' = conns'[i].call.req]_vars
    /\ [][request' # request =>
              \E i \in 1..Len(conns') :
                  /\ HandledNow(i)
                  /\ conns'[i].call.parsed
                  /\ request' = conns'[i].call.req]_vars

\* C19 witness: two cooperative connections interleave: the handler of the
\* second ran, reading its own Request, after the first, still suspended
\* before its write, had left another Request in the slot.
Wit_C19 ==
    /\ Len(conns) = 2
    /\ conns[1].driver = "Asyncio" /\ conns[2].driver = "Asyncio"
    /\ conns[1].pc = "write"
    /\ conns[1].call.parsed /\ ~conns[1].call.invoked
    /\ conns[2].call.invoked
    /\ conns[2].call.seen = conns[2].call.req
    /\ conns[2].call.req # conns[1].call.req
    /\ request = conns[2].call.req

(***************************************************************************)
(* Several App instances in one process                                    *)
(***************************************************************************)

\* The routes the instances register.
AppBindings ==
    { Binding(Chars("/"), <<GET>>, "index"),
      Binding(Chars("/x"), <<GET>>, "x") }

\* The bytes the instances are given.
AppBytes == { Wire("GET", "/"), Wire("GET", "/x") }

\* self.endpoints read through instance x: App has no __init__ and nothing
\* assigns the attribute, so the lookup ends at the class attribute
\* `endpoints = {}`, one dict for the class.
EndpointsOf(x) == endpoints

\* x.route(route, methods)(f): `self.endpoints[route, tuple(methods)] = f`
\* stores into the dict the lookup found.
RouteOn(x, b) ==
    /\ Len(RouteInsert(EndpointsOf(x), b)) <= MaxRoutes
    /\ endpoints' = RouteInsert(EndpointsOf(x), b)
    /\ apps' = [apps EXCEPT !.registered[x] = @ \cup {b}]
    /\ UNCHANGED <<debug, request, last, conns, timer, held, answer>>

\* x.debug = v: the assignment makes an attribute of the instance.
SetDebugOn(x, v) ==
    /\ apps' = [apps EXCEPT !.debug[x] = v]
    /\ UNCHANGED <<endpoints, debug, request, last, conns, timer, held, answer>>

\* x.handle(bites): `self.request = Request(bytes)` makes an attribute of
\* the instance; resolve reads self.endpoints.
HandleOn(x, bites) ==
    \E call \in HandleFrom(apps.request[x], EndpointsOf(x), apps.debug[x], bites) :
        /\ apps' = [apps EXCEPT !.request[x] = RequestSlot(@, call),
                                !.on = x,
                                !.last = call]
        /\ UNCHANGED <<endpoints, debug, request, last, conns, timer, held, answer>>

NextApps ==
    \/ \E x \in Apps : \E b \in AppBindings : RouteOn(x, b)
    \/ \E x \in Apps : \E v \in BOOLEAN : SetDebugOn(x, v)
    \/ \E x \in Apps : \E bites \in AppBytes : HandleOn(x, bites)

SpecApps == Init /\ [][NextApps]_vars

\* C20, as claimed: a request handled by one App instance is resolved only
\* to a handler registered through that instance.
Claim_C20 ==
    (apps.on \in Apps /\ apps.last.found) =>
        apps.last.binding \in apps.registered[apps.on]

====
